---------------------------- MODULE Spec2Model ----------------------------
(***************************************************************************)
(* Holistique UK site sync scripts.                                        *)
(*                                                                         *)
(*   scripts/sync-medium.js  (second half of src/scripts/send-newsletter.js)*)
(*       Medium RSS feed -> posts-manifest.json, post-N.html,              *)
(*       blog-post.html                                                    *)
(*   scripts/sync-events.js                                                *)
(*       Eventbrite API -> events-manifest.json, events.html, index.html   *)
(*                                                                         *)
(* Texts (documents, titles, links) are sequences of tokens.  A document   *)
(* token is a record [k, n, s]: k the kind of the piece of text, n and s   *)
(* the number and the string a generated card embeds.                      *)
(***************************************************************************)
EXTENDS Integers, Sequences, FiniteSets, TLC

VARIABLES
    script,          \* which script the process runs: "medium", "events", "splice"
    pc,              \* position of the running main()
    files,           \* the persisted files (the working tree)
    budget,          \* source records the remote side may still deliver
    items,           \* sync-medium main: items
    manifest,        \* sync-medium main: manifest (in memory)
    newItems,        \* sync-medium main: newItems
    nextNumber,      \* sync-medium main: nextNumber
    newCards,        \* sync-medium main: newCards
    evManifest,      \* sync-events main: manifest (in memory)
    previousHash,    \* sync-events main: previousHash
    upcomingEvents,  \* sync-events main: upcomingEvents
    pastEvents,      \* sync-events main: pastEvents
    call,            \* a function called on its own: arguments and result
    pre,             \* history: the files when the current run started
    written,         \* history: the files written by the current run, in order
    log,             \* history: the diagnostics printed by the current run
    rerun,           \* history: the run before completed, and the run at hand
                     \* got the source input it got
    fetching,        \* sync-events fetchAllEvents: url and events, while it runs
    net              \* the requests sent and the responses received by the
                     \* latest run that fetched events, in order

vars == <<script, pc, files, budget, items, manifest, newItems, nextNumber,
          newCards, evManifest, previousHash, upcomingEvents, pastEvents,
          call, pre, written, log, rerun, fetching, net>>

mediumVars == <<items, manifest, newItems, nextNumber, newCards>>
eventsVars == <<evManifest, previousHash, upcomingEvents, pastEvents>>

-----------------------------------------------------------------------------
(* Bounds of the model *)

\* feed items delivered to one behaviour of sync-medium, a run that fetches
\* nothing counting for one
MaxFetched == 3
\* events delivered to one behaviour of sync-events, counted the same way
MaxEvents == 2
\* length of the documents handed to replaceSection
MaxDocLen == 5
\* length of the titles handed to the renderers
MaxTitleLen == 4

-----------------------------------------------------------------------------
(* Text *)

Tok(kind) == [k |-> kind, n |-> 0, s |-> <<>>]
NL == Tok("\n")

\* all sequences over S of length at most n
SeqsUpTo(S, n) == UNION {[1..k -> S] : k \in 0..n}

Max(a, b) == IF a >= b THEN a ELSE b

\* String.prototype.indexOf(m): the first 0-based index of m in s, or -1
IndexOf(s, m) ==
    LET hits == {i \in 0..(Len(s) - Len(m)) : SubSeq(s, i + 1, i + Len(m)) = m}
    IN  IF hits = {} THEN -1 ELSE CHOOSE i \in hits : \A j \in hits : i <= j

Min(a, b) == IF a <= b THEN a ELSE b

\* String.prototype.substring(a, b) and substring(a), 0-based, b exclusive,
\* both clamped to the text
Clamp(s, i) == Min(Max(i, 0), Len(s))
Substring(s, a, b) ==
    SubSeq(s, Min(Clamp(s, a), Clamp(s, b)) + 1, Max(Clamp(s, a), Clamp(s, b)))
SubstringFrom(s, a) == SubSeq(s, Clamp(s, a) + 1, Len(s))

\* Array.prototype.join('\n') of an array of texts
RECURSIVE JoinNL(_)
JoinNL(texts) ==
    IF texts = <<>> THEN <<>>
    ELSE IF Len(texts) = 1 THEN texts[1]
    ELSE texts[1] \o <<NL>> \o JoinNL(Tail(texts))

-----------------------------------------------------------------------------
(* sync-events.js: replaceSection *)

\* the result null
NotFound == [found |-> FALSE, html |-> <<>>]

replaceSectionFromBegin(html, startMarker, endMarker, newContent) ==
    LET startIdx == IndexOf(html, startMarker)
        endIdx == IndexOf(html, endMarker)
    IN  IF startIdx = -1 \/ endIdx = -1 THEN NotFound
        ELSE [found |-> TRUE,
              html |-> Substring(html, 0, startIdx) \o <<NL>> \o newContent
                       \o <<NL>> \o SubstringFrom(html, endIdx)]

replaceSectionAfterEnd(html, startMarker, endMarker, newContent) ==
    LET startIdx == IndexOf(html, startMarker)
        endIdx == IndexOf(html, endMarker)
    IN  IF startIdx = -1 \/ endIdx = -1 THEN NotFound
        ELSE [found |-> TRUE,
              html |-> Substring(html, 0, startIdx + Len(startMarker)) \o <<NL>>
                       \o newContent \o <<NL>>
                       \o SubstringFrom(html, endIdx + Len(endMarker))]

replaceSection(html, startMarker, endMarker, newContent) ==
    LET startIdx == IndexOf(html, startMarker)
        endIdx == IndexOf(html, endMarker)
    IN  IF startIdx = -1 \/ endIdx = -1 THEN NotFound
        ELSE LET before == Substring(html, 0, startIdx + Len(startMarker))
                 after == SubstringFrom(html, endIdx)
             IN  [found |-> TRUE,
                  html |-> before \o <<NL>> \o newContent \o <<NL>> \o after]

-----------------------------------------------------------------------------
(* The persisted files *)

File(data) == [exists |-> TRUE, data |-> data]

\* file names, as the pair of a name and a post number
PostsManifestPath == <<"posts-manifest.json", 0>>
BlogListPath == <<"blog-post.html", 0>>
PostPath(number) == <<"post-N.html", number>>
EventsManifestPath == <<"events-manifest.json", 0>>
EventsPagePath == <<"events.html", 0>>
IndexPath == <<"index.html", 0>>

-----------------------------------------------------------------------------
(* sync-medium.js: feed items *)

\* an item of the feed as extractItems returns it: title and link are texts
\* of characters; a link is its origin, its path segments, "/" and its query
Origin == "https://medium.com"
Query == "?source=rss"

Titles == {<<"A">>, <<"a">>, <<"b">>}
Links == {<<Origin, "/p">>, <<Origin, "/p", "/">>, <<Origin, "/p", Query>>,
          <<"/p", "/">>}
Items == [title : Titles, link : Links]

\* the responses the feed can give with r records left to deliver
Feeds(r) == SeqsUpTo(Items, r)

\* String.prototype.toLowerCase
LowerChar(c) == IF c = "A" THEN "a" ELSE c
toLowerCase(str) == [i \in 1..Len(str) |-> LowerChar(str[i])]

\* String.prototype.replace(/c/g, by): every character c of str replaced by
\* the text by
RECURSIVE replaceAll(_, _, _)
replaceAll(str, c, by) ==
    IF str = <<>> THEN <<>>
    ELSE (IF Head(str) = c THEN by ELSE <<Head(str)>>)
         \o replaceAll(Tail(str), c, by)

Amp == <<"&", "a", "m", "p", ";">>
Lt == <<"&", "l", "t", ";">>
Gt == <<"&", "g", "t", ";">>
Quot == <<"&", "q", "u", "o", "t", ";">>

escapeHtmlAmpersandLast(str) ==
    replaceAll(replaceAll(replaceAll(replaceAll(str, "<", Lt), ">", Gt),
                          "\"", Quot), "&", Amp)

\* the four replacements, in the order of the code
escapeHtml(str) ==
    replaceAll(replaceAll(replaceAll(replaceAll(str, "&", Amp), "<", Lt),
                          ">", Gt), "\"", Quot)

\* new URL(link) throws unless the link starts with an origin
UrlParses(link) == Len(link) >= 1 /\ link[1] = Origin

\* new URL(link).pathname: what follows the origin, up to the query; "/" when
\* nothing does
pathname(link) ==
    LET rest == Tail(link)
        q == IndexOf(rest, <<Query>>)
        path == IF q = -1 THEN rest ELSE Substring(rest, 0, q)
    IN  IF path = <<>> THEN <<"/">> ELSE path

\* .replace(/\/$/, '')
stripTrailingSlash(path) ==
    IF Len(path) > 0 /\ path[Len(path)] = "/"
    THEN SubSeq(path, 1, Len(path) - 1) ELSE path

\* the normalized URL of the filter and of existingUrls: the same try/catch
pathName(link) ==
    IF UrlParses(link) THEN stripTrailingSlash(pathname(link)) ELSE link

existingTitles(m) == {toLowerCase(m.posts[i].title) : i \in 1..Len(m.posts)}
existingUrls(m) == {pathName(m.posts[i].mediumUrl) : i \in 1..Len(m.posts)}

isNewItemEitherKey(m, item) ==
    ~(toLowerCase(item.title) \in existingTitles(m))
    \/ ~(pathName(item.link) \in existingUrls(m))

\* the predicate of items.filter(...)
isNewItem(m, item) ==
    /\ ~(toLowerCase(item.title) \in existingTitles(m))
    /\ ~(pathName(item.link) \in existingUrls(m))

RECURSIVE filterNew(_, _)
filterNew(m, its) ==
    IF its = <<>> THEN <<>>
    ELSE (IF isNewItem(m, Head(its)) THEN <<Head(its)>> ELSE <<>>)
         \o filterNew(m, Tail(its))

\* generatePostHtml and generateCardHtml: the page and the card of a post
generatePostHtml(title) == [k |-> "post-page", n |-> 0, s |-> escapeHtml(title)]
generateCardHtml(number, title) ==
    <<[k |-> "card", n |-> number, s |-> escapeHtml(title)]>>

postEntryStaleFile(number, item) ==
    [number |-> number, title |-> item.title, mediumUrl |-> item.link,
     file |-> PostPath(number - 1)]

\* lines 559-566: the entry of a new item
postEntry(number, item) ==
    [number |-> number, title |-> item.title, mediumUrl |-> item.link,
     file |-> PostPath(number)]

\* formatDate: the date of new Date(dateStr), or what an invalid date gives
NoPubDate == [valid |-> FALSE, month |-> 1, day |-> 1, year |-> 1970]
MonthNames == <<"Jan", "Feb", "Mar", "Apr", "May", "Jun", "Jul", "Aug", "Sep",
                "Oct", "Nov", "Dec">>
formatDate(pubDate) ==
    IF pubDate.valid
    THEN <<MonthNames[pubDate.month], " ", ToString(pubDate.day), ",", " ",
           ToString(pubDate.year)>>
    ELSE <<"undefined", " ", "NaN", ",", " ", "NaN">>

\* a place of a template literal that embeds a value: the place and the text
\* that stands there
Slot(place, text) == [k |-> place, n |-> 0, s |-> text]

\* generatePostHtml, all its fields: the ${...} of the page template, in
\* the order of the template
generatePostHtmlSlots(post) ==
    <<Slot("<title>", escapeHtml(post.title)),
      Slot("article-hero img src", post.heroImage),
      Slot("article-hero img alt", escapeHtml(post.title)),
      Slot("article-category", escapeHtml(post.category)),
      Slot("article-title", escapeHtml(post.title)),
      Slot("article-subtitle", escapeHtml(post.subtitle)),
      Slot("article-meta date", post.date),
      Slot("article-meta readTime", <<ToString(post.readTime)>>),
      Slot("article-body", post.bodyHtml)>>

\* generateCardHtml, all its fields
generateCardHtmlSlots(card) ==
    <<Slot("Card comment", <<ToString(card.number)>>),
      Slot("article-card href", <<ToString(card.number)>>),
      Slot("card-img src", card.cardImage),
      Slot("card-img alt", escapeHtml(card.title)),
      Slot("card-category", escapeHtml(card.category)),
      Slot("card-title", escapeHtml(card.title)),
      Slot("card-excerpt", escapeHtml(card.excerpt)),
      Slot("card-meta readTime", <<ToString(card.readTime)>>),
      Slot("card-meta date", card.date)>>

insertMarker == <<Tok("article-grid")>>

EmptyManifest == [posts |-> <<>>, lastPostNumber |-> 0]

\* a manifest file that JSON.parse rejects, or whose value has no array of
\* entries (null, a number, an object without posts): reading it throws
Corrupt == [exists |-> TRUE, data |-> [corrupt |-> TRUE]]
Parses(file) == file.exists /\ DOMAIN file.data # {"corrupt"}

\* a manifest of earlier imports whose numbers have a gap
SeededManifest ==
    [posts |-> <<[number |-> 2, title |-> <<"a">>,
                  mediumUrl |-> <<Origin, "/p">>, file |-> PostPath(2)],
                 [number |-> 5, title |-> <<"c">>,
                  mediumUrl |-> <<Origin, "/s">>, file |-> PostPath(5)]>>,
     lastPostNumber |-> 5]

\* items of a feed with missing elements: get(tag) gives '' for an item
\* without <title> or without <link>
SparseItems == {[title |-> <<>>, link |-> <<>>],
                [title |-> <<"b">>, link |-> <<Origin, "/q">>],
                [title |-> <<"A">>, link |-> <<Origin, "/r">>]}
SparseFeeds(r) == SeqsUpTo(SparseItems, r)

unshift(array, element) == <<element>> \o array

\* Array.prototype.push
push(array, element) == Append(array, element)

\* blog-post.html as the repository can hold it: with and without the grid
BlogDocs == {<<Tok("x"), Tok("article-grid"), Tok("y")>>, <<Tok("x")>>}

\* blog-post.html with a second grid
TwoGridsDoc == <<Tok("article-grid"), Tok("x"), Tok("article-grid")>>

-----------------------------------------------------------------------------
(* sync-events.js: events, cards and documents *)

\* an event of the API: its id and its name (event.name may be absent)
Events == {[id |-> 1, hasName |-> TRUE, text |-> <<"Y">>],
           [id |-> 2, hasName |-> FALSE, text |-> <<>>]}

PastLimit == 12
HomepageLimit == 3

eventName(event) == IF event.hasName THEN event.text ELSE <<"Untitled Event">>

extractEventData(event) == [id |-> event.id, name |-> eventName(event)]

\* upcomingEvents.map(extractEventData), pastEvents.map(extractEventData)
eventData(events) == [i \in 1..Len(events) |-> extractEventData(events[i])]

generateEventsPageUpcomingCard(event) ==
    <<[k |-> "upcoming-card", n |-> 0, s |-> escapeHtml(eventName(event))]>>
generateEventsPagePastCard(event) ==
    <<[k |-> "past-card", n |-> 0, s |-> escapeHtml(eventName(event))]>>
generateHomepageCard(event) ==
    <<[k |-> "homepage-card", n |-> 0, s |-> escapeHtml(eventName(event))]>>

\* formatDateTime: isoStr split at 'T', '-' and ':'; the numbers go through
\* parseInt, the minutes are the text between the first two colons
NoStart == [given |-> FALSE, year |-> 0, month |-> 1, day |-> 0, hours |-> 0,
            minutes |-> <<>>]
formatDateTime(isoStr) ==
    IF ~isoStr.given THEN <<>>
    ELSE LET ampm == IF isoStr.hours >= 12 THEN "PM" ELSE "AM"
             hours == IF isoStr.hours = 0 THEN 12
                      ELSE IF isoStr.hours > 12 THEN isoStr.hours - 12
                      ELSE isoStr.hours
         IN  <<MonthNames[isoStr.month], " ", ToString(isoStr.day), ",", " ",
               ToString(isoStr.year), " ", "&middot;", " ", ToString(hours),
               ":">> \o isoStr.minutes \o <<" ", ampm>>

\* generateEventsPageUpcomingCard, generateEventsPagePastCard and
\* generateHomepageCard, all their fields: the three templates embed the
\* same values in the same order.  desc is what truncateText returned,
\* imageUrl what getEventImage did, location what getEventLocation did
generateEventCardSlots(event) ==
    <<Slot("event-card href", escapeHtml(IF event.url = <<>> THEN <<"#">>
                                         ELSE event.url)),
      Slot("event-card__img src", escapeHtml(event.imageUrl)),
      Slot("event-card__img alt", escapeHtml(eventName(event))),
      Slot("event-card__date", formatDateTime(event.start)),
      Slot("event-card__title", escapeHtml(eventName(event))),
      Slot("event-card__desc", escapeHtml(event.desc)),
      Slot("event-card__tag", escapeHtml(event.location))>>

UpcomingStart == <<Tok("EVENTS-UPCOMING-START")>>
UpcomingEnd == <<Tok("EVENTS-UPCOMING-END")>>
PastStart == <<Tok("EVENTS-PAST-START")>>
PastEnd == <<Tok("EVENTS-PAST-END")>>
HomepageStart == <<Tok("HOMEPAGE-EVENTS-START")>>
HomepageEnd == <<Tok("HOMEPAGE-EVENTS-END")>>

upcomingContent(events) ==
    IF Len(events) > 0
    THEN JoinNL([i \in 1..Len(events) |->
                    generateEventsPageUpcomingCard(events[i])])
    ELSE <<Tok("upcoming-empty")>>
pastContent(events) ==
    IF Len(events) > 0
    THEN JoinNL([i \in 1..Len(events) |->
                    generateEventsPagePastCard(events[i])])
    ELSE <<Tok("past-empty")>>
homepageContent(events) ==
    LET top3 == Substring(events, 0, HomepageLimit)
    IN  IF Len(top3) > 0
        THEN JoinNL([i \in 1..Len(top3) |-> generateHomepageCard(top3[i])])
        ELSE <<Tok("homepage-empty")>>

Missing == [exists |-> FALSE, data |-> <<>>]
DefaultEventsManifest == [lastSync |-> 0, upcoming |-> <<>>, past |-> <<>>]

\* the value of a property an object does not have
Undefined == <<[undefined |-> TRUE]>>

\* events-manifest.json holding {}: it parses, and has no upcoming and no
\* past
HollowEventsManifest ==
    [lastSync |-> 0, upcoming |-> Undefined, past |-> Undefined]

\* events.html and index.html as the repository can hold them: the sections
\* in place, a section without its markers, an end marker before its begin
\* marker, no file
EventsDocs ==
    {File(UpcomingStart \o <<Tok("o")>> \o UpcomingEnd \o PastStart \o PastEnd),
     File(<<Tok("x")>> \o PastStart \o PastEnd),
     File(<<Tok("x")>>),
     File(UpcomingEnd \o UpcomingStart \o PastStart \o PastEnd),
     Missing}
IndexDocs ==
    {File(HomepageStart \o <<Tok("o")>> \o HomepageEnd),
     File(<<Tok("x")>>),
     File(HomepageEnd \o HomepageStart),
     Missing}
EventsManifests == {Missing, [exists |-> TRUE, data |-> DefaultEventsManifest],
                    [exists |-> TRUE, data |-> HollowEventsManifest], Corrupt}

-----------------------------------------------------------------------------
(* replaceSection called on its own *)

Alphabet == {Tok("<!--"), Tok("S"), Tok("E"), Tok("x")}
MarkerPairs == {<<<<Tok("S")>>, <<Tok("E")>>>>,
                <<<<Tok("<!--"), Tok("S")>>, <<Tok("<!--"), Tok("E")>>>>}
Contents == {<<>>, <<Tok("c")>>, <<Tok("E")>>}

NoCall == [html |-> <<>>, startMarker |-> <<>>, endMarker |-> <<>>,
           newContent |-> <<>>, result |-> NotFound]

-----------------------------------------------------------------------------
(* Initial state *)

\* fetchAllEvents is not running
NoFetch == [status |-> "none", continuation |-> 0, events |-> <<>>]

Deliveries(s) == IF s = "events" THEN MaxEvents ELSE MaxFetched

InitFiles(s) ==
    {[postsManifest |-> File(EmptyManifest),
      blog |-> File(b),
      posts |-> <<>>,
      eventsManifest |-> m,
      eventsHtml |-> e,
      indexHtml |-> x] :
        b \in (IF s = "medium" THEN BlogDocs ELSE {<<Tok("x")>>}),
        m \in (IF s = "events" THEN EventsManifests ELSE {Missing}),
        e \in (IF s = "events" THEN EventsDocs ELSE {Missing}),
        x \in (IF s = "events" THEN IndexDocs ELSE {Missing})}

Init ==
    /\ script \in {"medium", "events", "splice"}
    /\ pc = "idle"
    /\ files \in InitFiles(script)
    /\ budget = Deliveries(script)
    /\ items = <<>>
    /\ manifest = EmptyManifest
    /\ newItems = <<>>
    /\ nextNumber = 0
    /\ newCards = <<>>
    /\ evManifest = DefaultEventsManifest
    /\ previousHash = <<>>
    /\ upcomingEvents = <<>>
    /\ pastEvents = <<>>
    /\ call = NoCall
    /\ pre = files
    /\ written = <<>>
    /\ log = <<>>
    /\ rerun = FALSE
    /\ fetching = NoFetch
    /\ net = <<>>

-----------------------------------------------------------------------------
(* A run of a script: node scripts/<script>.js, from start to exit *)

AtRest == pc \in {"idle", "done", "failed", "skipped"}

\* the documents among the files
Docs(f) == [blog |-> f.blog, posts |-> f.posts,
            eventsHtml |-> f.eventsHtml, indexHtml |-> f.indexHtml]

\* the process starts: nothing read or written yet
StartRun ==
    /\ pre' = files
    /\ written' = <<>>

Charge(n) == budget' = budget - Max(1, n)

\* new Date(): the time moves on from one run to the next
Now == Deliveries(script) - budget

-----------------------------------------------------------------------------
(* sync-medium.js: main *)

\* lines 473-483: the feed is fetched and its items extracted
MFetchFrom(feeds) ==
    /\ script = "medium" /\ AtRest /\ budget >= 1
    /\ \E feed \in feeds :
        /\ items' = feed
        /\ rerun' = (pc = "done" /\ feed = items)
        /\ Charge(Len(feed))
    /\ StartRun
    /\ log' = <<"Fetching Medium RSS feed...", "Found items in RSS feed">>
    /\ manifest' = EmptyManifest
    /\ newItems' = <<>>
    /\ nextNumber' = 0
    /\ newCards' = <<>>
    /\ pc' = "m_load"
    /\ UNCHANGED <<fetching, net>>
    /\ UNCHANGED <<script, files, eventsVars, call>>

\* the feed of well-formed items, and the feed with missing elements
MFetch == MFetchFrom(Feeds(budget))
MFetchSparse == MFetchFrom(SparseFeeds(budget))

\* lines 477-480: fetch rejects, process.exit(1)
MFetchFail ==
    /\ script = "medium" /\ AtRest /\ budget >= 1
    /\ Charge(0)
    /\ StartRun
    /\ log' = <<"Fetching Medium RSS feed...", "Failed to fetch RSS feed">>
    /\ rerun' = FALSE
    /\ items' = <<>>
    /\ manifest' = EmptyManifest
    /\ newItems' = <<>>
    /\ nextNumber' = 0
    /\ newCards' = <<>>
    /\ pc' = "failed"
    /\ UNCHANGED <<fetching, net>>
    /\ UNCHANGED <<script, files, eventsVars, call>>

noNewItemsNever(new) == FALSE

\* line 510: newItems.length === 0
noNewItems(new) == Len(new) = 0

\* lines 486-517: the manifest is loaded, the items are filtered; with no new
\* item main returns
MLoad ==
    /\ pc = "m_load"
    /\ Parses(files.postsManifest)
    /\ LET m == files.postsManifest.data
           new == filterNew(m, items)
       IN  /\ manifest' = m
           /\ newItems' = new
           /\ nextNumber' = IF noNewItems(new) THEN nextNumber
                            ELSE m.lastPostNumber
           /\ pc' = IF noNewItems(new) THEN "done" ELSE "m_import"
           /\ log' = IF noNewItems(new) THEN Append(log, "No new posts found")
                     ELSE Append(log, "Found new post(s) to sync")
    /\ UNCHANGED <<fetching, net>>
    /\ UNCHANGED <<script, files, budget, items, newCards, eventsVars, call,
                   pre, written, rerun>>

nextPostNumberSame(n) == n

\* line 521: nextNumber++
nextPostNumber(n) == n + 1

\* lines 520-567: one turn of the loop over newItems; the turn's item is the
\* one after those that already have a card
MImport ==
    /\ pc = "m_import"
    /\ Len(newCards) < Len(newItems)
    /\ LET item == newItems[Len(newCards) + 1]
           number == nextPostNumber(nextNumber)
       IN  /\ nextNumber' = number
           /\ files' = [files EXCEPT
                          !.posts = (number :> generatePostHtml(item.title)) @@ @]
           /\ written' = Append(written, PostPath(number))
           /\ newCards' = Append(newCards, generateCardHtml(number, item.title))
           /\ manifest' = [manifest EXCEPT
                             !.posts = push(@, postEntry(number, item))]
    /\ log' = Append(log, "Created post page")
    /\ UNCHANGED <<fetching, net>>
    /\ UNCHANGED <<script, pc, budget, items, newItems, eventsVars, call, pre,
                   rerun>>

loopDoneAtOnce(cards, new) == TRUE

\* line 520: for (const item of newItems) has gone through every item
loopDone(cards, new) == Len(cards) = Len(new)

setLastPostNumberStale(m, number) == m

\* line 569: manifest.lastPostNumber = nextNumber
setLastPostNumber(m, number) == [m EXCEPT !.lastPostNumber = number]

insertCardsAtEnd(blogHtml, insertPos, cardsHtml) ==
    blogHtml \o <<NL>> \o cardsHtml

\* line 579: blogHtml.slice(0, insertPos) + '\n' + cardsHtml
\* + blogHtml.slice(insertPos)
insertCards(blogHtml, insertPos, cardsHtml) ==
    Substring(blogHtml, 0, insertPos) \o <<NL>> \o cardsHtml
    \o SubstringFrom(blogHtml, insertPos)

\* lines 569-584: the counter is set, the cards are inserted after the grid's
\* opening tag in blog-post.html when it has one
MUpdateBlog ==
    /\ pc = "m_import"
    /\ loopDone(newCards, newItems)
    /\ files.blog.exists
    /\ manifest' = setLastPostNumber(manifest, nextNumber)
    /\ LET blogHtml == files.blog.data
           insertIdx == IndexOf(blogHtml, insertMarker)
           insertPos == insertIdx + Len(insertMarker)
           cardsHtml == JoinNL(newCards)
       IN  IF insertIdx # -1
           THEN /\ files' = [files EXCEPT !.blog = File(
                       insertCards(blogHtml, insertPos, cardsHtml))]
                /\ written' = Append(written, BlogListPath)
                /\ log' = Append(log, "Updated blog-post.html")
           ELSE /\ log' = Append(log, "Warning: Could not find article-grid")
                /\ UNCHANGED <<files, written>>
    /\ pc' = "m_save"
    /\ UNCHANGED <<fetching, net>>
    /\ UNCHANGED <<script, budget, items, newItems, nextNumber, newCards,
                   eventsVars, call, pre, rerun>>

\* lines 587-589: the manifest is saved
MSave ==
    /\ pc = "m_save"
    /\ files' = [files EXCEPT !.postsManifest = File(manifest)]
    /\ written' = Append(written, PostsManifestPath)
    /\ log' = log \o <<"Manifest updated", "Sync complete!">>
    /\ pc' = "done"
    /\ UNCHANGED <<fetching, net>>
    /\ UNCHANGED <<script, budget, mediumVars, eventsVars, call, pre, rerun>>

\* lines 592-595: readFileSync, JSON.parse or writeFileSync throws at the
\* step at hand; main's promise rejects, process.exit(1)
MThrow ==
    /\ pc \in {"m_load", "m_import", "m_save"}
    /\ pc' = "failed"
    /\ log' = Append(log, "Sync failed")
    /\ UNCHANGED <<fetching, net>>
    /\ UNCHANGED <<script, files, budget, mediumVars, eventsVars, call, pre,
                   written, rerun>>

-----------------------------------------------------------------------------
(* sync-events.js: main *)

\* lines 245-248: EVENTBRITE_TOKEN or EVENTBRITE_ORG_ID is not set, exit(0)
ESkip ==
    /\ script = "events" /\ AtRest /\ budget >= 1
    /\ Charge(0)
    /\ pre' = files
    /\ written' = <<>>
    /\ log' = <<"Skipping event sync">>
    /\ rerun' = FALSE
    /\ pc' = "skipped"
    /\ UNCHANGED <<fetching, net>>
    /\ UNCHANGED <<script, files, mediumVars, eventsVars, call>>

hashOfUpcoming(upcoming, past) == <<upcoming>>

\* lines 259, 391: JSON.stringify(upcoming) + JSON.stringify(past)
hashOf(upcoming, past) == <<upcoming, past>>

\* lines 250-259: the manifest is loaded, or the default one created in memory
ELoad ==
    /\ script = "events" /\ AtRest /\ budget >= 1
    /\ files.eventsManifest.exists => Parses(files.eventsManifest)
    /\ StartRun
    /\ log' = IF files.eventsManifest.exists THEN <<>>
              ELSE <<"Created default events-manifest.json">>
    /\ LET m == IF files.eventsManifest.exists THEN files.eventsManifest.data
                ELSE DefaultEventsManifest
       IN  /\ evManifest' = m
           /\ previousHash' = hashOf(m.upcoming, m.past)
    /\ rerun' = (pc = "done")
    /\ pc' = "e_upcoming"
    /\ UNCHANGED <<fetching, net>>
    /\ UNCHANGED <<script, files, budget, mediumVars, upcomingEvents,
                   pastEvents, call>>

\* line 253: readFileSync or JSON.parse throws, or line 259 does on a value
\* that has no properties (null); main's promise rejects, process.exit(1)
ELoadFail ==
    /\ script = "events" /\ AtRest /\ budget >= 1
    /\ files.eventsManifest.exists
    /\ Charge(0)
    /\ StartRun
    /\ log' = <<"Sync failed">>
    /\ rerun' = FALSE
    /\ pc' = "failed"
    /\ UNCHANGED <<fetching, net>>
    /\ UNCHANGED <<script, files, mediumVars, eventsVars, call>>

\* lines 262-270: the upcoming events are fetched, every page of them
EFetchUpcoming ==
    /\ pc = "e_upcoming"
    /\ \E events \in SeqsUpTo(Events, budget) :
        /\ upcomingEvents' = events
        /\ rerun' = (rerun /\ events = upcomingEvents)
    /\ pc' = "e_past"
    /\ UNCHANGED <<fetching, net>>
    /\ UNCHANGED <<script, files, budget, mediumVars, evManifest, previousHash,
                   pastEvents, call, pre, written, log>>

\* lines 273-283: the past events are fetched and cut to the 12 most recent
EFetchPast ==
    /\ pc = "e_past"
    /\ \E events \in SeqsUpTo(Events, budget - Len(upcomingEvents)) :
        /\ pastEvents' = Substring(events, 0, PastLimit)
        /\ rerun' = (rerun /\ Substring(events, 0, PastLimit) = pastEvents)
        /\ Charge(Len(upcomingEvents) + Len(events))
    /\ pc' = "e_page"
    /\ UNCHANGED <<fetching, net>>
    /\ UNCHANGED <<script, files, mediumVars, evManifest, previousHash,
                   upcomingEvents, call, pre, written, log>>

\* lines 266-269, 277-280: a fetch rejects, process.exit(1)
EFetchFail ==
    /\ pc \in {"e_upcoming", "e_past"}
    /\ Charge(0)
    /\ pc' = "failed"
    /\ log' = Append(log, "Failed to fetch events")
    /\ UNCHANGED <<fetching, net>>
    /\ UNCHANGED <<script, files, mediumVars, eventsVars, call, pre, written,
                   rerun>>

sectionChangedBoth(upcomingFound, pastFound) == upcomingFound /\ pastFound

\* lines 308, 323, 340: changed, false until a section is replaced
sectionChanged(upcomingFound, pastFound) == upcomingFound \/ pastFound

\* lines 306-352: the two sections of events.html
EUpdatePage ==
    /\ pc = "e_page"
    /\ IF files.eventsHtml.exists
       THEN LET eventsHtml == files.eventsHtml.data
                updatedUpcoming ==
                    replaceSection(eventsHtml, UpcomingStart, UpcomingEnd,
                                   upcomingContent(upcomingEvents))
                html1 == IF updatedUpcoming.found THEN updatedUpcoming.html
                         ELSE eventsHtml
                updatedPast ==
                    replaceSection(html1, PastStart, PastEnd,
                                   pastContent(pastEvents))
                html2 == IF updatedPast.found THEN updatedPast.html ELSE html1
                changed == sectionChanged(updatedUpcoming.found,
                                          updatedPast.found)
                warn1 == IF updatedUpcoming.found THEN <<>>
                         ELSE <<"Warning: Could not find EVENTS-UPCOMING markers">>
                warn2 == IF updatedPast.found THEN <<>>
                         ELSE <<"Warning: Could not find EVENTS-PAST markers">>
            IN  /\ log' = log \o warn1 \o warn2
                /\ IF changed
                   THEN /\ files' = [files EXCEPT !.eventsHtml = File(html2)]
                        /\ written' = Append(written, EventsPagePath)
                   ELSE UNCHANGED <<files, written>>
       ELSE /\ log' = Append(log, "Warning: events.html not found")
            /\ UNCHANGED <<files, written>>
    /\ pc' = "e_index"
    /\ UNCHANGED <<fetching, net>>
    /\ UNCHANGED <<script, budget, mediumVars, eventsVars, call, pre, rerun>>

\* lines 356-378: the homepage section of index.html
EUpdateIndex ==
    /\ pc = "e_index"
    /\ IF files.indexHtml.exists
       THEN LET updatedIndex ==
                    replaceSection(files.indexHtml.data, HomepageStart,
                                   HomepageEnd, homepageContent(upcomingEvents))
            IN  IF updatedIndex.found
                THEN /\ files' = [files EXCEPT
                                    !.indexHtml = File(updatedIndex.html)]
                     /\ written' = Append(written, IndexPath)
                     /\ UNCHANGED log
                ELSE /\ log' = Append(log,
                            "Warning: Could not find HOMEPAGE-EVENTS markers")
                     /\ UNCHANGED <<files, written>>
       ELSE /\ log' = Append(log, "Warning: index.html not found")
            /\ UNCHANGED <<files, written>>
    /\ pc' = "e_manifest"
    /\ UNCHANGED <<fetching, net>>
    /\ UNCHANGED <<script, budget, mediumVars, eventsVars, call, pre, rerun>>

\* lines 382-398: the manifest is written, then the change is reported
EWriteManifest ==
    /\ pc = "e_manifest"
    /\ LET upcomingData == eventData(upcomingEvents)
           pastData == eventData(pastEvents)
           m == [lastSync |-> Now, upcoming |-> upcomingData, past |-> pastData]
           newHash == hashOf(upcomingData, pastData)
       IN  /\ evManifest' = m
           /\ files' = [files EXCEPT !.eventsManifest = File(m)]
           /\ log' = Append(log, IF newHash # previousHash
                                 THEN "EVENTS_CHANGED=true"
                                 ELSE "EVENTS_CHANGED=false")
    /\ written' = Append(written, EventsManifestPath)
    /\ pc' = "done"
    /\ UNCHANGED <<fetching, net>>
    /\ UNCHANGED <<script, budget, mediumVars, previousHash, upcomingEvents,
                   pastEvents, call, pre, rerun>>

\* lines 401-404: readFileSync or writeFileSync throws at the step at hand;
\* main's promise rejects, process.exit(1)
EThrow ==
    /\ pc \in {"e_page", "e_index", "e_manifest"}
    /\ pc' = "failed"
    /\ log' = Append(log, "Sync failed")
    /\ UNCHANGED <<fetching, net>>
    /\ UNCHANGED <<script, files, budget, mediumVars, eventsVars, call, pre,
                   written, rerun>>

-----------------------------------------------------------------------------
(* replaceSection called on its own, on any document *)

CallReplaceSection ==
    /\ script = "splice" /\ pc = "idle"
    /\ \E html \in SeqsUpTo(Alphabet, MaxDocLen), markers \in MarkerPairs,
          newContent \in Contents :
        call' = [html |-> html, startMarker |-> markers[1],
                 endMarker |-> markers[2], newContent |-> newContent,
                 result |-> replaceSection(html, markers[1], markers[2],
                                           newContent)]
    /\ pc' = "returned"
    /\ UNCHANGED <<fetching, net>>
    /\ UNCHANGED <<script, files, budget, mediumVars, eventsVars, pre, written,
                   log, rerun>>

-----------------------------------------------------------------------------

(* The renderers called on their own, on any title *)

TitleChars == {"&", "<", ">", "\"", "x"}
RenderTitles == SeqsUpTo(TitleChars, MaxTitleLen)

\* what the other fields hold: texts with and without reserved characters,
\* image URLs (the src of an <img>, which has no quote in it), dates
FieldTexts == {<<"x">>, <<"x", "&", "<">>}
ImageUrls == {<<"u">>, <<"u", "&", "v">>}
PubDates == {NoPubDate, [valid |-> TRUE, month |-> 2, day |-> 15, year |-> 2026]}
Starts == {NoStart,
           [given |-> TRUE, year |-> 2026, month |-> 2, day |-> 15,
            hours |-> 19, minutes |-> <<"0", "0">>],
           [given |-> TRUE, year |-> 2026, month |-> 2, day |-> 15,
            hours |-> 0, minutes |-> <<"<", "i", ">">>]}

RenderedEvents ==
    [id : {1}, hasName : BOOLEAN, text : FieldTexts, desc : FieldTexts,
     url : {<<>>, <<"u", "&", "v">>}, imageUrl : ImageUrls,
     location : FieldTexts, start : Starts]

Returned(fn, input, result) == [fn |-> fn, input |-> input, result |-> result]

\* lines 521-539: the fields main derives from an item, and generatePostHtml
CallGeneratePostHtml ==
    /\ script = "render" /\ pc = "idle"
    /\ \E title \in RenderTitles, text \in FieldTexts,
          heroImage \in {<<>>, <<"u", "&", "v">>}, pubDate \in PubDates :
        LET post == [title |-> title, subtitle |-> text,
                     category |-> text, date |-> formatDate(pubDate),
                     readTime |-> 2, heroImage |-> heroImage,
                     bodyHtml |-> <<"<", "p", ">", "x", "<", "/", "p", ">">>]
        IN  call' = Returned("generatePostHtml", post,
                             generatePostHtmlSlots(post))
    /\ pc' = "rendered"
    /\ UNCHANGED <<fetching, net>>
    /\ UNCHANGED <<script, files, budget, mediumVars, eventsVars, pre, written,
                   log, rerun>>

\* lines 548-556: generateCardHtml
CallGenerateCardHtml ==
    /\ script = "render" /\ pc = "idle"
    /\ \E title \in RenderTitles, text \in FieldTexts,
          cardImage \in {<<>>, <<"u", "&", "v">>}, pubDate \in PubDates :
        LET card == [number |-> 1, title |-> title, category |-> text,
                     excerpt |-> text, readTime |-> 2,
                     date |-> formatDate(pubDate), cardImage |-> cardImage]
        IN  call' = Returned("generateCardHtml", card,
                             generateCardHtmlSlots(card))
    /\ pc' = "rendered"
    /\ UNCHANGED <<fetching, net>>
    /\ UNCHANGED <<script, files, budget, mediumVars, eventsVars, pre, written,
                   log, rerun>>

\* sync-events.js lines 180-241: a card of an event
CallGenerateEventCard ==
    /\ script = "render" /\ pc = "idle"
    /\ \E event \in RenderedEvents :
        call' = Returned("generateEventCard", event,
                         generateEventCardSlots(event))
    /\ pc' = "rendered"
    /\ UNCHANGED <<fetching, net>>
    /\ UNCHANGED <<script, files, budget, mediumVars, eventsVars, pre, written,
                   log, rerun>>

InitRender ==
    /\ script = "render"
    /\ pc = "idle"
    /\ files = [postsManifest |-> Missing, blog |-> Missing, posts |-> <<>>,
                eventsManifest |-> Missing, eventsHtml |-> Missing,
                indexHtml |-> Missing]
    /\ budget = 0
    /\ items = <<>>
    /\ manifest = EmptyManifest
    /\ newItems = <<>>
    /\ nextNumber = 0
    /\ newCards = <<>>
    /\ evManifest = DefaultEventsManifest
    /\ previousHash = <<>>
    /\ upcomingEvents = <<>>
    /\ pastEvents = <<>>
    /\ call = NoCall
    /\ pre = files
    /\ written = <<>>
    /\ log = <<>>
    /\ rerun = FALSE
    /\ fetching = NoFetch
    /\ net = <<>>

NextRender ==
    CallGeneratePostHtml \/ CallGenerateCardHtml \/ CallGenerateEventCard

SpecRender == InitRender /\ [][NextRender]_vars

-----------------------------------------------------------------------------

(* The text shorteners called on their own *)

\* at most this many words in a text
MaxWords == 2

isSpace(c) == c = " "

\* String.prototype.trim()
trim(str) ==
    LET inked == {i \in 1..Len(str) : ~isSpace(str[i])}
    IN  IF inked = {} THEN <<>>
        ELSE SubSeq(str, CHOOSE i \in inked : \A j \in inked : i <= j,
                         CHOOSE i \in inked : \A j \in inked : i >= j)

\* the characters of str at the places in kept, in their order
keepAt(str, kept) ==
    LET marked == [i \in 1..Len(str) |-> [c |-> str[i], keep |-> i \in kept]]
        left == SelectSeq(marked, LAMBDA m : m.keep)
    IN  [i \in 1..Len(left) |-> left[i].c]

\* str.replace(/<[^>]+>/g, ''): a tag runs from a "<", through one character
\* or more that is not ">", to the next ">"; a "<" inside a tag ends with
\* the same ">"
tagPlaces(str) ==
    LET closing(i) == {j \in (i + 1)..Len(str) : str[j] = ">"}
        close(i) == CHOOSE j \in closing(i) : \A k \in closing(i) : j <= k
        opening == {i \in 1..Len(str) :
                       str[i] = "<" /\ closing(i) # {} /\ close(i) >= i + 2}
    IN  UNION {i..close(i) : i \in opening}

stripTags(str) == keepAt(str, (1..Len(str)) \ tagPlaces(str))

\* sync-events.js stripHtml
stripHtml(str) == IF str = <<>> THEN <<>> ELSE trim(stripTags(str))

\* str.replace(/\s+/g, ' ')
collapseWhitespace(str) ==
    keepAt(str, {i \in 1..Len(str) :
                    ~(isSpace(str[i]) /\ i > 1 /\ isSpace(str[i - 1]))})

\* String.prototype.lastIndexOf(c): the last 0-based index of c, or -1
lastIndexOf(str, c) ==
    LET hits == {i \in 1..Len(str) : str[i] = c}
    IN  IF hits = {} THEN -1
        ELSE (CHOOSE i \in hits : \A j \in hits : i >= j) - 1

Ellipsis == <<".", ".", ".">>

\* the budget of an event description, and of a post excerpt with the length
\* it is cut to
DescriptionLimit == 150
ExcerptLimit == 160
ExcerptKept == 157

truncateText(text, maxLen) ==
    IF text = <<>> THEN <<>>
    ELSE LET clean == trim(collapseWhitespace(stripHtml(text)))
             truncated == Substring(clean, 0, maxLen)
             lastSpace == lastIndexOf(truncated, " ")
         IN  IF Len(clean) <= maxLen THEN clean
             ELSE (IF lastSpace > 0 THEN Substring(truncated, 0, lastSpace)
                   ELSE truncated) \o Ellipsis

\* str.replace(/entity/g, char) for an entity "&...;" and the one character
\* it stands for
replaceEntity(str, entity, char) ==
    LET found == {i \in 1..(Len(str) - Len(entity) + 1) :
                     SubSeq(str, i, i + Len(entity) - 1) = entity}
        rest == UNION {(i + 1)..(i + Len(entity) - 1) : i \in found}
        put == [i \in 1..Len(str) |-> IF i \in found THEN char ELSE str[i]]
    IN  keepAt(put, (1..Len(str)) \ rest)

Nbsp == <<"&", "n", "b", "s", "p", ";">>

\* the named entities, in the order of the chain (the texts hold no numeric
\* reference, &#39;, &mdash; or &hellip;)
decodeHtmlEntities(str) ==
    LET a == replaceEntity(str, Amp, "&")
        b == replaceEntity(a, Lt, "<")
        c == replaceEntity(b, Gt, ">")
        d == replaceEntity(c, Quot, "\"")
    IN  replaceEntity(d, Nbsp, " ")

POpen == <<"<", "p">>
PClose == <<"<", "/", "p", ">">>

\* html.match(/<p[^>]*>([\s\S]*?)<\/p>/): the leftmost "<p", the next ">",
\* the nearest "</p>" after it; the captured text, or no match
NoMatch == [matched |-> FALSE, text |-> <<>>]
matchParagraph(html) ==
    LET gtOf(i) == {j \in (i + 2)..Len(html) : html[j] = ">"}
        firstGt(i) == CHOOSE j \in gtOf(i) : \A k \in gtOf(i) : j <= k
        endsOf(i) == {k \in (firstGt(i) + 1)..(Len(html) - 3) :
                         SubSeq(html, k, k + 3) = PClose}
        starts == {i \in 1..(Len(html) - 1) :
                      /\ SubSeq(html, i, i + 1) = POpen
                      /\ gtOf(i) # {}
                      /\ endsOf(i) # {}}
        start == CHOOSE i \in starts : \A j \in starts : i <= j
        end == CHOOSE k \in endsOf(start) : \A j \in endsOf(start) : k <= j
    IN  IF starts = {} THEN NoMatch
        ELSE [matched |-> TRUE, text |-> SubSeq(html, firstGt(start) + 1, end - 1)]

\* the text a paragraph is shortened from
paragraphText(captured) == trim(decodeHtmlEntities(stripTags(captured)))

extractExcerpt(html) ==
    LET pMatch == matchParagraph(html)
        text == paragraphText(pMatch.text)
    IN  IF ~pMatch.matched THEN <<>>
        ELSE IF Len(text) > ExcerptLimit
             THEN Substring(text, 0, ExcerptKept) \o Ellipsis
             ELSE text

\* texts of words of these lengths, one space between two words
WordLens == {3, 147, 150, 151, 157, 161}
Word(n) == [i \in 1..n |-> "x"]
RECURSIVE Words(_)
Words(lens) ==
    IF lens = <<>> THEN <<>>
    ELSE IF Len(lens) = 1 THEN Word(lens[1])
    ELSE Word(lens[1]) \o <<" ">> \o Words(Tail(lens))

PlainTexts == {Words(lens) : lens \in SeqsUpTo(WordLens, MaxWords)}

\* the same text inside mark-up, with white space around it
Marked(text) ==
    <<" ", "<", "b", ">">> \o text \o <<"<", "/", "b", ">", " ", " ">>
Paragraph(text) == <<"<", "p", ">">> \o text \o PClose

Descriptions == PlainTexts \cup {Marked(t) : t \in PlainTexts}
ItemContents ==
    {Paragraph(t) : t \in PlainTexts}
        \cup {Paragraph(Marked(t) \o Nbsp) : t \in PlainTexts}
        \cup {<<"x">>}

\* sync-events.js lines 184, 204, 223, 290: the description of an event
CallTruncateText ==
    /\ script = "shorten" /\ pc = "idle"
    /\ \E text \in Descriptions :
        call' = Returned("truncateText", text,
                         truncateText(text, DescriptionLimit))
    /\ pc' = "rendered"
    /\ UNCHANGED <<fetching, net>>
    /\ UNCHANGED <<script, files, budget, mediumVars, eventsVars, pre, written,
                   log, rerun>>

\* line 527: the excerpt of an item's content
CallExtractExcerpt ==
    /\ script = "shorten" /\ pc = "idle"
    /\ \E html \in ItemContents :
        call' = Returned("extractExcerpt", html, extractExcerpt(html))
    /\ pc' = "rendered"
    /\ UNCHANGED <<fetching, net>>
    /\ UNCHANGED <<script, files, budget, mediumVars, eventsVars, pre, written,
                   log, rerun>>

InitShorten ==
    /\ script = "shorten"
    /\ pc = "idle"
    /\ files = [postsManifest |-> Missing, blog |-> Missing, posts |-> <<>>,
                eventsManifest |-> Missing, eventsHtml |-> Missing,
                indexHtml |-> Missing]
    /\ budget = 0
    /\ items = <<>>
    /\ manifest = EmptyManifest
    /\ newItems = <<>>
    /\ nextNumber = 0
    /\ newCards = <<>>
    /\ evManifest = DefaultEventsManifest
    /\ previousHash = <<>>
    /\ upcomingEvents = <<>>
    /\ pastEvents = <<>>
    /\ call = NoCall
    /\ pre = files
    /\ written = <<>>
    /\ log = <<>>
    /\ rerun = FALSE
    /\ fetching = NoFetch
    /\ net = <<>>

NextShorten == CallTruncateText \/ CallExtractExcerpt

SpecShorten == InitShorten /\ [][NextShorten]_vars

-----------------------------------------------------------------------------

\* the two sync scripts, sync-medium.js on feeds with missing elements and
\* on manifests of earlier imports
SeededFiles ==
    {[postsManifest |-> m, blog |-> File(b), posts |-> <<>>,
      eventsManifest |-> Missing, eventsHtml |-> Missing,
      indexHtml |-> Missing] :
        m \in {File(EmptyManifest), File(SeededManifest), Corrupt},
        b \in BlogDocs \cup {TwoGridsDoc}}

InitSeeded ==
    /\ script \in {"medium", "events"}
    /\ pc = "idle"
    /\ files \in (IF script = "medium" THEN SeededFiles ELSE InitFiles(script))
    /\ budget = Deliveries(script)
    /\ items = <<>>
    /\ manifest = EmptyManifest
    /\ newItems = <<>>
    /\ nextNumber = 0
    /\ newCards = <<>>
    /\ evManifest = DefaultEventsManifest
    /\ previousHash = <<>>
    /\ upcomingEvents = <<>>
    /\ pastEvents = <<>>
    /\ call = NoCall
    /\ pre = files
    /\ written = <<>>
    /\ log = <<>>
    /\ rerun = FALSE
    /\ fetching = NoFetch
    /\ net = <<>>

NextSeeded ==
    \/ MFetchSparse \/ MFetchFail \/ MLoad \/ MImport \/ MUpdateBlog \/ MSave
    \/ MThrow
    \/ ESkip \/ ELoad \/ ELoadFail \/ EFetchUpcoming \/ EFetchPast \/ EFetchFail
    \/ EUpdatePage \/ EUpdateIndex \/ EWriteManifest \/ EThrow

SpecSeeded == InitSeeded /\ [][NextSeeded]_vars

(* sync-events.js with its fetches taken request by request *)

\* requests one run may send, redirections included
MaxRequests == 3

\* data.pagination of a response: absent, or has_more_items with a
\* continuation token (0 when the response has none)
NoPagination == [given |-> FALSE, has_more_items |-> FALSE, continuation |-> 0]
Paginations(token) ==
    {NoPagination,
     [given |-> TRUE, has_more_items |-> FALSE, continuation |-> 0],
     [given |-> TRUE, has_more_items |-> TRUE, continuation |-> 0],
     [given |-> TRUE, has_more_items |-> TRUE, continuation |-> token]}

hasMoreNever(data) == FALSE

\* line 83: data.pagination && data.pagination.has_more_items
\* && data.pagination.continuation
hasMore(data) ==
    /\ data.pagination.given
    /\ data.pagination.has_more_items
    /\ data.pagination.continuation # 0

\* what goes over the connection: a request for the url of a fetch, and
\* what comes back for it (a page, a redirection, an error)
Exchange(kind, fetch, pagination) ==
    [kind |-> kind, status |-> fetch.status,
     continuation |-> fetch.continuation, pagination |-> pagination]

requestsIn(trace) == Len(SelectSeq(trace, LAMBDA e : e.kind = "request"))

\* the requests the run still has to send after one more for the query at
\* hand: the first request for the past events
owed(status) == IF status = "ended" THEN 0 ELSE 1

\* lines 76-79 and 47: fetchAllEvents begins with the url of its query, or
\* goes round its loop with the url of the next page, and fetchJson sends
\* the request
ERequestPage ==
    /\ pc \in {"e_upcoming", "e_past"}
    /\ LET status == IF pc = "e_upcoming" THEN "live,started" ELSE "ended"
           begins == fetching = NoFetch
           fetch == IF begins
                    THEN [status |-> status, continuation |-> 0,
                          events |-> <<>>]
                    ELSE fetching
       IN  /\ fetching' = fetch
           /\ net' = (IF begins /\ pc = "e_upcoming" THEN <<>> ELSE net)
                     \o <<Exchange("request", fetch, NoPagination)>>
    /\ pc' = IF pc = "e_upcoming" THEN "e_upcoming_wait" ELSE "e_past_wait"
    /\ UNCHANGED <<script, files, budget, mediumVars, eventsVars, call, pre,
                   written, log, rerun>>

\* lines 48-51: the response is a redirection, doRequest asks the location
ERedirected ==
    /\ pc \in {"e_upcoming_wait", "e_past_wait"}
    /\ requestsIn(net) + 1 + owed(fetching.status) <= MaxRequests
    /\ net' = net \o <<Exchange("redirect", fetching, NoPagination),
                       Exchange("request", fetching, NoPagination)>>
    /\ UNCHANGED <<script, pc, files, budget, mediumVars, eventsVars, call,
                   pre, written, log, rerun, fetching>>

\* lines 52-60 and 79-94: the page arrives and parses; its events are added,
\* and the loop goes on with the continuation or fetchAllEvents returns, to
\* main lines 270 and 281-283
EPageArrives ==
    /\ pc \in {"e_upcoming_wait", "e_past_wait"}
    /\ LET upcoming == fetching.status = "live,started"
           delivered == Len(fetching.events)
                        + (IF upcoming THEN 0 ELSE Len(upcomingEvents))
           mayGoOn == requestsIn(net) + 1 + owed(fetching.status)
                          <= MaxRequests
       IN  \E batch \in SeqsUpTo(Events, budget - delivered),
              pagination \in Paginations(fetching.continuation + 1) :
            LET data == [events |-> batch, pagination |-> pagination]
                events == fetching.events \o batch
            IN  /\ hasMore(data) => mayGoOn
                /\ net' = Append(net, Exchange("response", fetching, pagination))
                /\ IF hasMore(data)
                   THEN /\ fetching' =
                              [fetching EXCEPT
                                 !.events = events,
                                 !.continuation = pagination.continuation]
                        /\ pc' = IF upcoming THEN "e_upcoming" ELSE "e_past"
                        /\ UNCHANGED <<budget, upcomingEvents, pastEvents,
                                       rerun>>
                   ELSE /\ fetching' = NoFetch
                        /\ IF upcoming
                           THEN /\ upcomingEvents' = events
                                /\ rerun' = (rerun /\ events = upcomingEvents)
                                /\ pc' = "e_past"
                                /\ UNCHANGED <<budget, pastEvents>>
                           ELSE /\ pastEvents' = Substring(events, 0, PastLimit)
                                /\ rerun' = (rerun /\ Substring(events, 0,
                                                PastLimit) = pastEvents)
                                /\ Charge(Len(upcomingEvents) + Len(events))
                                /\ pc' = "e_page"
                                /\ UNCHANGED upcomingEvents
    /\ UNCHANGED <<script, files, mediumVars, evManifest, previousHash, call,
                   pre, written, log>>

\* lines 55-65 and 266-269, 277-280: the request fails, the status is not
\* 200 or the body does not parse; fetchJson rejects, process.exit(1)
ERequestFails ==
    /\ pc \in {"e_upcoming_wait", "e_past_wait"}
    /\ net' = Append(net, Exchange("error", fetching, NoPagination))
    /\ fetching' = NoFetch
    /\ Charge(0)
    /\ pc' = "failed"
    /\ log' = Append(log, "Failed to fetch events")
    /\ UNCHANGED <<script, files, mediumVars, eventsVars, call, pre, written,
                   rerun>>

\* before the first run: no manifest, events.html with its two sections,
\* index.html with its section
InitFetch ==
    /\ script = "events"
    /\ pc = "idle"
    /\ files \in {f \in InitFiles(script) :
                    /\ f.eventsManifest = Missing
                    /\ f.eventsHtml = File(UpcomingStart \o <<Tok("o")>>
                                           \o UpcomingEnd \o PastStart \o PastEnd)
                    /\ f.indexHtml = File(HomepageStart \o <<Tok("o")>>
                                          \o HomepageEnd)}
    /\ budget = Deliveries(script)
    /\ items = <<>>
    /\ manifest = EmptyManifest
    /\ newItems = <<>>
    /\ nextNumber = 0
    /\ newCards = <<>>
    /\ evManifest = DefaultEventsManifest
    /\ previousHash = <<>>
    /\ upcomingEvents = <<>>
    /\ pastEvents = <<>>
    /\ call = NoCall
    /\ pre = files
    /\ written = <<>>
    /\ log = <<>>
    /\ rerun = FALSE
    /\ fetching = NoFetch
    /\ net = <<>>

NextFetch ==
    \/ ESkip \/ ELoad \/ ELoadFail
    \/ ERequestPage \/ ERedirected \/ EPageArrives \/ ERequestFails
    \/ EUpdatePage \/ EUpdateIndex \/ EWriteManifest \/ EThrow

SpecFetch == InitFetch /\ [][NextFetch]_vars

-----------------------------------------------------------------------------

Next ==
    \/ MFetch \/ MFetchFail \/ MLoad \/ MImport \/ MUpdateBlog \/ MSave
    \/ MThrow
    \/ ESkip \/ ELoad \/ ELoadFail \/ EFetchUpcoming \/ EFetchPast \/ EFetchFail
    \/ EUpdatePage \/ EUpdateIndex \/ EWriteManifest \/ EThrow
    \/ CallReplaceSection

Spec == Init /\ [][Next]_vars

-----------------------------------------------------------------------------
(* Properties *)

IsPrefix(p, t) == Len(p) <= Len(t) /\ SubSeq(t, 1, Len(p)) = p
IsSuffix(p, t) == Len(p) <= Len(t) /\ SubSeq(t, Len(t) - Len(p) + 1, Len(t)) = p

\* sync-medium has filtered the feed of the run at hand
Filtered == script = "medium" /\ pc \in {"m_import", "m_save", "done"}

\* the posts-manifest.json the run at hand started from, and the one on disk
LoadedManifest == pre.postsManifest.data
SavedManifest == files.postsManifest.data

\* C1: a run on the source input of the completed run before it, started
\* from the files that run left, finds no new record and leaves every
\* document (blog-post.html, post-N.html, events.html, index.html) as it was
C1_Idempotence ==
    (pc = "done" /\ rerun) =>
        /\ script = "medium" => newItems = <<>>
        /\ Docs(files) = Docs(pre)

\* C2: a run that imports k new records from a manifest whose counter is L
\* gives them, in feed order, the numbers L+1 .. L+k, and saves the counter
\* L+k
C2_SequenceMonotonicity ==
    (script = "medium" /\ pc = "done" /\ newItems # <<>>) =>
        LET L == LoadedManifest.lastPostNumber
            k == Len(newItems)
            n0 == Len(LoadedManifest.posts)
            posts == SavedManifest.posts
        IN  /\ Len(posts) = n0 + k
            /\ \A i \in 1..k :
                /\ posts[n0 + i].number = L + i
                /\ posts[n0 + i].title = newItems[i].title
                /\ posts[n0 + i].mediumUrl = newItems[i].link
            /\ SavedManifest.lastPostNumber = L + k

\* an importing run has committed two records on top of an earlier import
C2_Witness ==
    /\ script = "medium" /\ pc = "done"
    /\ Len(newItems) = 2
    /\ LoadedManifest.lastPostNumber > 0
    /\ SavedManifest.lastPostNumber = LoadedManifest.lastPostNumber + 2

\* a link without its query string and its trailing slash
withoutSlashAndQuery(link) ==
    LET q == IndexOf(link, <<Query>>)
    IN  stripTrailingSlash(IF q = -1 THEN link ELSE Substring(link, 0, q))

\* C3: no two entries of the saved manifest have links that are identical
\* apart from a trailing slash or a query string
C3_IdentityCollapse ==
    script = "medium" =>
        \A i, j \in 1..Len(SavedManifest.posts) :
            (i < j /\ SavedManifest.posts[i].mediumUrl
                        # SavedManifest.posts[j].mediumUrl)
            => withoutSlashAndQuery(SavedManifest.posts[i].mediumUrl)
                 # withoutSlashAndQuery(SavedManifest.posts[j].mediumUrl)

sharesKey(a, b) ==
    \/ toLowerCase(a.title) = toLowerCase(b.title)
    \/ pathName(a.link) = pathName(b.link)

\* C4: of two records of one feed that share an identity key, at most one
\* is classified as new
C4_DuplicateInFetch ==
    Filtered =>
        \A i, j \in 1..Len(newItems) :
            i < j => ~sharesKey(newItems[i], newItems[j])

\* an item has a key of some entry of the manifest m
knownIn(m, item) ==
    \/ \E i \in 1..Len(m.posts) :
        toLowerCase(m.posts[i].title) = toLowerCase(item.title)
    \/ \E i \in 1..Len(m.posts) :
        pathName(m.posts[i].mediumUrl) = pathName(item.link)

\* the items of a feed that have no key in m, in feed order
RECURSIVE unknownOf(_, _)
unknownOf(m, its) ==
    IF its = <<>> THEN <<>>
    ELSE LET rest == unknownOf(m, SubSeq(its, 1, Len(its) - 1))
             last == its[Len(its)]
         IN  IF knownIn(m, last) THEN rest ELSE Append(rest, last)

\* C5: the new items are the feed's items none of whose keys (lower-cased
\* title, normalized URL) is a key of some entry of the loaded manifest, in
\* feed order
C5_AnyKeyMatch ==
    Filtered => newItems = unknownOf(LoadedManifest, items)

\* an item of the feed is known by its URL alone, which the feed writes
\* differently than the manifest does, and another item of the feed is new
C5_Witness ==
    /\ Filtered
    /\ newItems # <<>>
    /\ \E i \in 1..Len(items), j \in 1..Len(LoadedManifest.posts) :
        /\ toLowerCase(items[i].title)
             # toLowerCase(LoadedManifest.posts[j].title)
        /\ items[i].link # LoadedManifest.posts[j].mediumUrl
        /\ pathName(items[i].link) = pathName(LoadedManifest.posts[j].mediumUrl)

markersMissing(html, startMarker, endMarker) ==
    IndexOf(html, startMarker) = -1 \/ IndexOf(html, endMarker) = -1

\* C6: the result of replaceSection begins with the document's text up to
\* and including the begin marker and ends with the document's text from the
\* end marker on; it is null exactly when a marker is missing, and main then
\* leaves the document as it was
C6_SpliceContainment ==
    /\ pc = "returned" =>
        LET startIdx == IndexOf(call.html, call.startMarker)
            endIdx == IndexOf(call.html, call.endMarker)
        IN  /\ call.result.found
                <=> ~markersMissing(call.html, call.startMarker, call.endMarker)
            /\ call.result.found =>
                /\ IsPrefix(SubSeq(call.html, 1,
                                   startIdx + Len(call.startMarker)),
                            call.result.html)
                /\ IsSuffix(SubSeq(call.html, endIdx + 1, Len(call.html)),
                            call.result.html)
    /\ (script = "events" /\ pc \in {"e_index", "e_manifest", "done"}
        /\ pre.eventsHtml.exists
        /\ markersMissing(pre.eventsHtml.data, UpcomingStart, UpcomingEnd)
        /\ markersMissing(pre.eventsHtml.data, PastStart, PastEnd))
       => files.eventsHtml = pre.eventsHtml
    /\ (script = "events" /\ pc \in {"e_manifest", "done"}
        /\ pre.indexHtml.exists
        /\ markersMissing(pre.indexHtml.data, HomepageStart, HomepageEnd))
       => files.indexHtml = pre.indexHtml

\* a splice into a document with text before the begin marker and after the
\* end marker
C6_Witness ==
    /\ pc = "returned"
    /\ call.result.found
    /\ IndexOf(call.html, call.startMarker) > 0
    /\ IndexOf(call.html, call.startMarker) < IndexOf(call.html, call.endMarker)
    /\ IndexOf(call.html, call.endMarker) + Len(call.endMarker) < Len(call.html)
    /\ call.result.html # call.html

\* the end marker has an occurrence after the begin marker
endAfterBegin(html, startMarker, endMarker) ==
    /\ IndexOf(html, startMarker) # -1
    /\ IndexOf(SubstringFrom(html, IndexOf(html, startMarker) + Len(startMarker)),
               endMarker) # -1

\* C7: replaceSection splices at the first begin marker and the first end
\* marker after it, and returns null when no end marker follows the begin
\* marker
C7_MarkerLocation ==
    pc = "returned" =>
        /\ call.result.found
            <=> endAfterBegin(call.html, call.startMarker, call.endMarker)
        /\ call.result.found =>
            LET from == IndexOf(call.html, call.startMarker)
                          + Len(call.startMarker)
                endIdx == from + IndexOf(SubstringFrom(call.html, from),
                                         call.endMarker)
            IN  IsSuffix(<<NL>> \o SubstringFrom(call.html, endIdx),
                         call.result.html)
                /\ Len(call.result.html)
                     = from + Len(call.newContent) + 2 + Len(call.html) - endIdx

\* the text of the result right after its first begin marker
afterBegin(result, startMarker) ==
    SubstringFrom(result, IndexOf(result, startMarker) + Len(startMarker))

\* C8 as stated: in the result the begin marker is followed by newContent
\* and then the end marker, nothing more
C8_ExactReplacement_Original ==
    (pc = "returned" /\ call.result.found) =>
        IsPrefix(call.newContent \o call.endMarker,
                 afterBegin(call.result.html, call.startMarker))

\* C8: in the result the begin marker is followed by a line break,
\* newContent, a line break and then the end marker
C8_ExactReplacement ==
    (pc = "returned" /\ call.result.found) =>
        /\ IndexOf(call.result.html, call.startMarker)
             = IndexOf(call.html, call.startMarker)
        /\ IsPrefix(<<NL>> \o call.newContent \o <<NL>> \o call.endMarker,
                    afterBegin(call.result.html, call.startMarker))

\* a splice that replaces a non-empty region by a non-empty content
C8_Witness ==
    /\ pc = "returned"
    /\ call.result.found
    /\ call.newContent # <<>>
    /\ IndexOf(call.html, call.endMarker)
         > IndexOf(call.html, call.startMarker) + Len(call.startMarker)

\* the run at hand brought no change: no new item, or event data equal to
\* the loaded manifest's
noChange ==
    IF script = "medium" THEN newItems = <<>>
    ELSE <<eventData(upcomingEvents), eventData(pastEvents)>> = previousHash

C10_AbortAtomicity ==
    pc = "failed" => files = pre

\* the numbers of the entries of a manifest, in list order
numbersOf(m) == [i \in 1..Len(m.posts) |-> m.posts[i].number]

\* C11: whatever runs completed or aborted, the posts-manifest.json on disk
\* has entry numbers that strictly increase in list order (so no number
\* occurs twice), and its lastPostNumber is the highest number among its
\* entries
C11_ManifestConsistency ==
    (script = "medium" /\ Parses(files.postsManifest)) =>
        LET m == files.postsManifest.data
            numbers == numbersOf(m)
        IN  /\ \A i, j \in 1..Len(numbers) : i < j => numbers[i] < numbers[j]
            /\ \A i \in 1..Len(numbers) : numbers[i] <= m.lastPostNumber
            /\ numbers # <<>> => \E i \in 1..Len(numbers) :
                                    numbers[i] = m.lastPostNumber
            /\ numbers = <<>> => m.lastPostNumber = 0

\* the manifest with the gap has been extended by a run that imported two
\* items, after an earlier run that saved nothing
C11_Witness ==
    /\ script = "medium" /\ pc = "done"
    /\ Len(newItems) = 2
    /\ LoadedManifest = SeededManifest
    /\ numbersOf(SavedManifest) = <<2, 5, 6, 7>>
    /\ budget < MaxFetched - 2

\* an item whose title and link are both absent
isMalformed(item) == item.title = <<>> /\ item.link = <<>>

\* C12: an item of the feed without title and without link is not among
\* the new items (so it gets no number, no page and no manifest entry), and
\* the run that met one prints a diagnostic about it
C12_MalformedItemSkip ==
    Filtered =>
        /\ \A i \in 1..Len(newItems) : ~isMalformed(newItems[i])
        /\ (\E i \in 1..Len(items) : isMalformed(items[i]))
            => \E i \in 1..Len(log) : log[i] = "Skipped an item without title and link"

\* a diagnostic the run at hand has printed
logged(message) == \E i \in 1..Len(log) : log[i] = message

\* a file the run at hand has written
wrote(path) == \E i \in 1..Len(written) : written[i] = path

\* C13: a document without its anchor or without the markers of a section
\* is left as it was, or only that section is, with a warning; the run goes
\* on: the post pages are written, the sections and documents that have
\* their markers are updated, and a run that completes has saved the manifest
C13_MissingMarkersPolicy ==
    /\ (script = "medium" /\ pc \in {"m_save", "done"} /\ newItems # <<>>
        /\ IndexOf(pre.blog.data, insertMarker) = -1) =>
            /\ files.blog = pre.blog
            /\ logged("Warning: Could not find article-grid")
            /\ Len(newCards) = Len(newItems)
            /\ \A i \in 1..Len(newCards) : wrote(PostPath(newCards[i][1].n))
            /\ pc = "done" =>
                /\ written[Len(written)] = PostsManifestPath
                /\ Len(SavedManifest.posts)
                     = Len(LoadedManifest.posts) + Len(newItems)
    /\ (script = "events" /\ pc \in {"e_index", "e_manifest", "done"}
        /\ pre.eventsHtml.exists) =>
            LET html == pre.eventsHtml.data
                noUpcoming == markersMissing(html, UpcomingStart, UpcomingEnd)
                noPast == markersMissing(html, PastStart, PastEnd)
            IN  /\ noUpcoming
                    <=> logged("Warning: Could not find EVENTS-UPCOMING markers")
                /\ noPast <=> logged("Warning: Could not find EVENTS-PAST markers")
                /\ (noUpcoming /\ ~noPast) =>
                    files.eventsHtml.data
                      = replaceSection(html, PastStart, PastEnd,
                                       pastContent(pastEvents)).html
                /\ (noPast /\ ~noUpcoming) =>
                    files.eventsHtml.data
                      = replaceSection(html, UpcomingStart, UpcomingEnd,
                                       upcomingContent(upcomingEvents)).html
    /\ (script = "events" /\ pc \in {"e_manifest", "done"}
        /\ pre.indexHtml.exists) =>
            LET noHomepage == markersMissing(pre.indexHtml.data, HomepageStart,
                                             HomepageEnd)
            IN  /\ noHomepage
                    <=> logged("Warning: Could not find HOMEPAGE-EVENTS markers")
                /\ noHomepage => files.indexHtml = pre.indexHtml
                /\ ~noHomepage => wrote(IndexPath)
    /\ (script = "events" /\ pc = "done") =>
            /\ written[Len(written)] = EventsManifestPath
            /\ files.eventsManifest.data.upcoming = eventData(upcomingEvents)
            /\ files.eventsManifest.data.past = eventData(pastEvents)

\* a completed sync-events run on an events.html without the markers of the
\* upcoming section: the past section and index.html were updated
C13_Witness ==
    /\ script = "events" /\ pc = "done"
    /\ pre.eventsHtml.exists
    /\ markersMissing(pre.eventsHtml.data, UpcomingStart, UpcomingEnd)
    /\ ~markersMissing(pre.eventsHtml.data, PastStart, PastEnd)
    /\ files.eventsHtml # pre.eventsHtml
    /\ pastEvents # <<>>
    /\ wrote(IndexPath)

\* the manifest the run at hand started from cannot be loaded, or lacks the
\* structure of a manifest
manifestUnusable ==
    IF script = "medium" THEN ~Parses(pre.postsManifest)
    ELSE /\ pre.eventsManifest.exists
         /\ \/ ~Parses(pre.eventsManifest)
            \/ pre.eventsManifest.data.upcoming = Undefined
            \/ pre.eventsManifest.data.past = Undefined

\* C14: a run whose fetch failed has ended as failed and has written no
\* file; a run that started from a manifest that cannot be loaded or is
\* structurally invalid writes no file and does not complete
C14_FatalEarlyFailures ==
    /\ (logged("Failed to fetch RSS feed") \/ logged("Failed to fetch events"))
       => (pc = "failed" /\ written = <<>> /\ files = pre)
    /\ (script \in {"medium", "events"} /\ pc \notin {"idle", "skipped"}
        /\ manifestUnusable)
       => (written = <<>> /\ files = pre /\ pc # "done")

\* the escaped form of a character, and of a text character by character
escaped(c) ==
    CASE c = "&" -> Amp
      [] c = "<" -> Lt
      [] c = ">" -> Gt
      [] c = "\"" -> Quot
      [] OTHER -> <<c>>
RECURSIVE escapedText(_)
escapedText(str) ==
    IF str = <<>> THEN <<>> ELSE escaped(Head(str)) \o escapedText(Tail(str))

\* a text without a raw <, > or ", in which every & starts an entity
markupSafe(str) ==
    \A i \in 1..Len(str) :
        /\ str[i] \notin {"<", ">", "\""}
        /\ str[i] = "&" =>
            \E entity \in {Amp, Lt, Gt, Quot} :
                IsPrefix(entity, SubSeq(str, i, Len(str)))

\* the places of the page and of the card that embed the title
TitleSlots == {"<title>", "article-hero img alt", "article-title",
               "card-img alt", "card-title"}
titleSlotsOf(result) == {i \in 1..Len(result) : result[i].k \in TitleSlots}

\* C15: wherever the page of a post and its card embed the title, the text
\* that stands there is the title with each &, <, > and " replaced by its
\* entity: it has no raw <, > or ", and each of its & starts an entity
C15_TitleEscaping ==
    (pc = "rendered" /\ call.fn \in {"generatePostHtml", "generateCardHtml"}) =>
        /\ Cardinality(titleSlotsOf(call.result))
             = IF call.fn = "generatePostHtml" THEN 3 ELSE 2
        /\ \A i \in titleSlotsOf(call.result) :
            /\ call.result[i].s = escapedText(call.input.title)
            /\ markupSafe(call.result[i].s)

\* a card was rendered for a title that holds the four characters
C15_Witness ==
    /\ pc = "rendered"
    /\ call.fn = "generateCardHtml"
    /\ {call.input.title[i] : i \in 1..Len(call.input.title)}
         = {"&", "<", ">", "\""}
    /\ \E i \in 1..Len(call.result) :
        call.result[i].k = "card-title" /\ Len(call.result[i].s) = 19

\* C16: every text of the source that a renderer embeds (all the places of
\* the post page but its body, all the places of the post card and of the
\* event cards) stands there escaped: without a raw <, > or ", and with no
\* & but those of entities
C16_EveryFieldEscaped ==
    pc = "rendered" =>
        \A i \in 1..Len(call.result) :
            call.result[i].k # "article-body" => markupSafe(call.result[i].s)

\* the phase a message of sync-medium is printed in
phaseOf(message) ==
    CASE message = "Fetching Medium RSS feed..." -> "Fetching"
      [] message = "Found items in RSS feed" -> "Normalizing"
      [] message \in {"No new posts found", "Found new post(s) to sync"}
           -> "Diffing"
      [] message = "Created post page" -> "Rendering"
      [] message \in {"Updated blog-post.html",
                      "Warning: Could not find article-grid"} -> "Splicing"
      [] message = "Manifest updated" -> "Committing"
      [] message = "Sync complete!" -> "Idle"
      [] OTHER -> "Aborted"

\* the phases the run at hand has entered, in order: a phase is entered
\* with the first message of it that follows a message of another phase
RECURSIVE phasesOf(_)
phasesOf(messages) ==
    IF messages = <<>> THEN <<>>
    ELSE LET before == phasesOf(SubSeq(messages, 1, Len(messages) - 1))
             phase == phaseOf(messages[Len(messages)])
         IN  IF before # <<>> /\ before[Len(before)] = phase THEN before
             ELSE Append(before, phase)

NoOpRun == <<"Fetching", "Normalizing", "Diffing">>
ImportingRun == <<"Fetching", "Normalizing", "Diffing", "Rendering", "Splicing",
                  "Committing", "Idle">>

\* the place of a file in the order of the writes of a run
writeRank(path) ==
    IF path = BlogListPath THEN 2 ELSE IF path = PostsManifestPath THEN 3 ELSE 1

\* C17: a sync-medium run enters Fetching, Normalizing, Diffing and then
\* either ends, having found no new item and written nothing, or enters
\* Rendering, Splicing, Committing and ends; it enters no phase twice and
\* none out of this order, whether it completes or aborts on the way, and it
\* writes the post pages while Rendering, then the list document, and the
\* manifest last
C17_RunStateMachine ==
    (script = "medium" /\ pc # "idle") =>
        LET phases == phasesOf(log)
            entered == IF pc = "failed"
                       THEN SubSeq(phases, 1, Len(phases) - 1) ELSE phases
        IN  /\ IsPrefix(entered, ImportingRun)
            /\ pc = "failed" => phases[Len(phases)] = "Aborted"
            /\ pc = "done" =>
                    entered = IF newItems = <<>> THEN NoOpRun ELSE ImportingRun
            /\ IsPrefix(entered, NoOpRun) => written = <<>>
            /\ \A i, j \in 1..Len(written) :
                    i < j => /\ writeRank(written[i]) <= writeRank(written[j])
                             /\ writeRank(written[i]) < 3
            /\ wrote(PostsManifestPath) =>
                    /\ IsPrefix(SubSeq(ImportingRun, 1, 6), entered)
                    /\ Len(newCards) = Len(newItems)
                    /\ Len(SelectSeq(written, LAMBDA f : writeRank(f) = 1))
                         = Len(newItems)

\* a run that imported two items has gone through the seven phases and
\* has written two pages, the list document and the manifest
C17_Witness ==
    /\ script = "medium" /\ pc = "done"
    /\ Len(newItems) = 2
    /\ phasesOf(log) = ImportingRun
    /\ Len(written) = 4

\* the number of occurrences of a text m in a text
occurrences(text, m) ==
    Cardinality({i \in 0..(Len(text) - Len(m)) :
                    SubSeq(text, i + 1, i + Len(m)) = m})

\* the numbers of the cards of a document, in document order
cardNumbers(html) ==
    LET cards == SelectSeq(html, LAMBDA piece : piece.k = "card")
    IN  [i \in 1..Len(cards) |-> cards[i].n]

\* C18: the run that inserted its cards into blog-post.html left the text
\* up to the end of the first anchor and the text after it as they were,
\* and put between them a line break and its cards, in the order of their
\* numbers: the cards of earlier runs all stand after them.  No run changes
\* the number of occurrences of the anchor
C18_AnchorInsertion ==
    /\ (script = "medium" /\ pc \in {"m_save", "done"} /\ newItems # <<>>
        /\ IndexOf(pre.blog.data, insertMarker) # -1) =>
            LET old == pre.blog.data
                new == files.blog.data
                insertPos == IndexOf(old, insertMarker) + Len(insertMarker)
                L == LoadedManifest.lastPostNumber
                k == Len(newItems)
            IN  /\ Len(new) = Len(old) + 2 * k
                /\ SubSeq(new, 1, insertPos) = SubSeq(old, 1, insertPos)
                /\ SubSeq(new, insertPos + 2 * k + 1, Len(new))
                     = SubSeq(old, insertPos + 1, Len(old))
                /\ new[insertPos + 1] = NL
                /\ \A i \in 1..k :
                    /\ new[insertPos + 2 * i].k = "card"
                    /\ new[insertPos + 2 * i].n = L + i
                    /\ new[insertPos + 2 * i].s = escapeHtml(newItems[i].title)
                    /\ i < k => new[insertPos + 2 * i + 1] = NL
                /\ IsPrefix([i \in 1..k |-> L + i], cardNumbers(new))
                /\ IndexOf(new, insertMarker) = IndexOf(old, insertMarker)
    /\ script = "medium" =>
            occurrences(files.blog.data, insertMarker)
              = occurrences(pre.blog.data, insertMarker)

\* the cards of a second importing run stand before the card of the first
C18_Witness ==
    /\ script = "medium" /\ pc = "done"
    /\ Len(newItems) = 2
    /\ Len(cardNumbers(pre.blog.data)) = 1
    /\ Len(cardNumbers(files.blog.data)) = 3
    /\ cardNumbers(files.blog.data)[3] < cardNumbers(files.blog.data)[1]
    /\ occurrences(files.blog.data, insertMarker) = 1

\* C19: the posts-manifest.json on disk holds, at their places and with
\* their number, title, mediumUrl and file, all the entries it held when the
\* run at hand started; what a run changes of the list is its end, where it
\* adds the entries of its new items
C19_NoLossOfRecordedItems ==
    (script = "medium" /\ Parses(pre.postsManifest)) =>
        /\ Parses(files.postsManifest)
        /\ IsPrefix(LoadedManifest.posts, SavedManifest.posts)
        /\ Len(SavedManifest.posts) \in
                {Len(LoadedManifest.posts),
                 Len(LoadedManifest.posts) + Len(newItems)}

\* two runs have added entries after the two entries of the manifest they
\* started from
C19_Witness ==
    /\ script = "medium" /\ pc = "done"
    /\ Len(LoadedManifest.posts) = 3
    /\ Len(SavedManifest.posts) = 4
    /\ SubSeq(SavedManifest.posts, 1, 2) = SeededManifest.posts

\* how many times the run at hand has printed a message
timesLogged(message) == Cardinality({i \in 1..Len(log) : log[i] = message})

\* the event data of the manifest the run at hand loaded
loadedEvents ==
    IF pre.eventsManifest.exists
    THEN <<pre.eventsManifest.data.upcoming, pre.eventsManifest.data.past>>
    ELSE <<<<>>, <<>>>>

\* C20: a completed sync-events run has printed EVENTS_CHANGED=true or
\* EVENTS_CHANGED=false, once: true when the upcoming or the past event data
\* it extracted differ from those of the manifest it loaded, false when both
\* are the same; a run that has not completed has printed neither.  A
\* completed sync-medium run has printed once either that there is no new
\* post or that the sync with its new posts is complete
C20_ChangeSignal ==
    /\ (script = "events" /\ pc = "done") =>
        LET changed == <<eventData(upcomingEvents), eventData(pastEvents)>>
                         # loadedEvents
        IN  /\ timesLogged("EVENTS_CHANGED=true") = IF changed THEN 1 ELSE 0
            /\ timesLogged("EVENTS_CHANGED=false") = IF changed THEN 0 ELSE 1
    /\ (script = "events" /\ pc # "done") =>
        /\ ~logged("EVENTS_CHANGED=true")
        /\ ~logged("EVENTS_CHANGED=false")
    /\ (script = "medium" /\ pc = "done") =>
        /\ timesLogged("No new posts found") = IF newItems = <<>> THEN 1 ELSE 0
        /\ timesLogged("Sync complete!") = IF newItems = <<>> THEN 0 ELSE 1
    /\ (script = "medium" /\ pc # "done") =>
        /\ ~logged("No new posts found")
        /\ ~logged("Sync complete!")

\* a run that fetched the events the manifest already held
C20_Witness ==
    /\ script = "events" /\ pc = "done"
    /\ upcomingEvents # <<>>
    /\ eventData(upcomingEvents) = loadedEvents[1]
    /\ logged("EVENTS_CHANGED=false")

-----------------------------------------------------------------------------

\* the plain text a call shortens, and its budget
plainTextOf(c) ==
    IF c.fn = "truncateText"
    THEN trim(collapseWhitespace(stripHtml(c.input)))
    ELSE paragraphText(matchParagraph(c.input).text)

budgetOf(c) == IF c.fn = "truncateText" THEN DescriptionLimit ELSE ExcerptLimit

\* kept, a prefix of text, ends inside a word of text
midWord(kept, text) ==
    /\ kept # <<>> /\ Len(kept) < Len(text)
    /\ ~isSpace(kept[Len(kept)])
    /\ ~isSpace(text[Len(kept) + 1])

\* C21: a description (truncateText, budget 150) or an excerpt
\* (extractExcerpt, budget 160) that is shortened is a prefix of the plain
\* text that does not end in the middle of a word, followed by an ellipsis,
\* and a text within the budget is returned as it is, without ellipsis.
C21_WordBoundaryTruncation ==
    (script = "shorten" /\ pc = "rendered") =>
        LET text == plainTextOf(call)
        IN  IF Len(text) <= budgetOf(call) THEN call.result = text
            ELSE LET kept == SubSeq(call.result, 1, Len(call.result) - 3)
                 IN  /\ IsSuffix(Ellipsis, call.result)
                     /\ IsPrefix(kept, text)
                     /\ ~midWord(kept, text)

-----------------------------------------------------------------------------

\* the post pages the run at hand has written, in the order of the writes
pageWrites == SelectSeq(written, LAMBDA path : path[1] = "post-N.html")

\* the cards of the new items from the i-th on, one to a line, in the order
\* of the items, numbered from L + i
RECURSIVE cardsFrom(_, _)
cardsFrom(L, i) ==
    IF i > Len(newItems) THEN <<>>
    ELSE generateCardHtml(L + i, newItems[i].title)
         \o (IF i < Len(newItems) THEN <<NL>> ELSE <<>>)
         \o cardsFrom(L, i + 1)

\* C22: a sync-medium run has written one page per new item it has gone
\* through and no other page: the page of the i-th new item is in
\* post-<L+i>.html, L + i being the item's number, and the item's manifest
\* entry records that file name; past the loop the run has gone through all
\* its k new items, the cards it has for blog-post.html are the k cards in
\* the order of the new items, and those cards stand in blog-post.html in
\* that order when it has the anchor; no new item has a key of the loaded
\* manifest, so that no page and no card is made for a known item
C22_OutputsOfImportingRun ==
    Filtered =>
        LET L == LoadedManifest.lastPostNumber
            n0 == Len(LoadedManifest.posts)
            k == Len(newItems)
            j == Len(newCards)
            pastLoop == pc \in {"m_save", "done"}
        IN  /\ j <= k
            /\ pastLoop => j = k
            /\ \A i \in 1..k : ~knownIn(LoadedManifest, newItems[i])
            /\ pageWrites = [i \in 1..j |-> PostPath(L + i)]
            /\ \A i \in 1..j :
                /\ files.posts[L + i] = generatePostHtml(newItems[i].title)
                /\ manifest.posts[n0 + i].number = L + i
                /\ manifest.posts[n0 + i].title = newItems[i].title
                /\ manifest.posts[n0 + i].file = PostPath(L + i)
                /\ newCards[i] = generateCardHtml(L + i, newItems[i].title)
            /\ (pc = "done" /\ k > 0) =>
                \A i \in 1..k : SavedManifest.posts[n0 + i].file = PostPath(L + i)
            /\ (pastLoop /\ k > 0 /\ IndexOf(pre.blog.data, insertMarker) # -1) =>
                IndexOf(files.blog.data,
                        insertMarker \o <<NL>> \o cardsFrom(L, 1)) # -1

\* a completed run on a feed of three items, one of them known to the
\* manifest of an earlier import, has written the pages of the two new items
\* and put their two cards into blog-post.html
C22_Witness ==
    /\ script = "medium" /\ pc = "done"
    /\ Len(items) = 3
    /\ Len(newItems) = 2
    /\ LoadedManifest.lastPostNumber > 0
    /\ pageWrites = <<PostPath(LoadedManifest.lastPostNumber + 1),
                      PostPath(LoadedManifest.lastPostNumber + 2)>>
    /\ IndexOf(pre.blog.data, insertMarker) # -1
    /\ Len(cardNumbers(files.blog.data)) = Len(cardNumbers(pre.blog.data)) + 2

-----------------------------------------------------------------------------

\* the requests without an answer yet, after the first i exchanges
outstanding(i) ==
    LET sent == requestsIn(SubSeq(net, 1, i))
    IN  sent - (i - sent)

\* a page whose pagination names the page after it
namesNextPage(e) ==
    /\ e.kind = "response"
    /\ e.pagination.has_more_items
    /\ e.pagination.continuation # 0

\* a page that is the last of its query
lastPageOf(e, status) ==
    e.kind = "response" /\ e.status = status /\ ~namesNextPage(e)

\* C23: in sync-events at most one request is outstanding at any time.  The
\* first request is for the first page of the upcoming events; every other
\* request follows the answer to the request before it: it asks again for
\* what was redirected, or for the page that the page before it names, or,
\* once the last page of the upcoming events has arrived, for the first
\* page of the past events.  Nothing is written before the last page of the
\* past events has arrived
C23_SequentialFetches ==
    script = "events" =>
        /\ \A i \in 0..Len(net) : outstanding(i) \in {0, 1}
        /\ \A i \in 1..Len(net) :
            net[i].kind = "request" =>
                IF i = 1
                THEN net[i].status = "live,started" /\ net[i].continuation = 0
                ELSE LET before == net[i - 1]
                     IN  \/ /\ before.kind = "redirect"
                            /\ net[i].status = before.status
                            /\ net[i].continuation = before.continuation
                         \/ /\ namesNextPage(before)
                            /\ net[i].status = before.status
                            /\ net[i].continuation
                                 = before.pagination.continuation
                         \/ /\ lastPageOf(before, "live,started")
                            /\ net[i].status = "ended"
                            /\ net[i].continuation = 0
        /\ written # <<>> =>
            /\ pc \in {"e_page", "e_index", "e_manifest", "done", "failed"}
            /\ net # <<>>
            /\ lastPageOf(net[Len(net)], "ended")
            /\ outstanding(Len(net)) = 0

\* a run has fetched two pages of upcoming events, then the past events,
\* and has written its files
C23_Witness ==
    /\ script = "events" /\ pc = "done"
    /\ written # <<>>
    /\ \E i, j \in 1..Len(net) :
        /\ i < j
        /\ net[i].kind = "request" /\ net[i].status = "live,started"
        /\ net[i].continuation = 1
        /\ net[j].kind = "request" /\ net[j].status = "ended"

=============================================================================
